---- MODULE Spec2Model ----
(***************************************************************************)
(* Model of stats.py: a linear script that fetches the open and the closed *)
(* pull requests of a repository page by page, splits the closed ones into *)
(* abandoned and merged, and prints statistics.  The GitHub API is the     *)
(* environment: each GET is answered with a status, a page of raw objects  *)
(* and (possibly) a 'next' link, chosen from small sets.                   *)
(***************************************************************************)
EXTENDS Integers, Sequences, FiniteSets, TLC

(* ------------------------------ bounds --------------------------------- *)
\* most GETs to the pull-request list endpoints in one run
MaxGets == 4
\* most objects on one page
MaxPageLen == 2
\* most objects served during one run (both collections together)
MaxObjects == 3

(* --------------------------- values and inputs -------------------------- *)
\* Python's None, and JSON null
None == <<>>

\* datetime.date.today(); the run does not cross midnight
Today == <<2024, 1, 19>>

\* value of args.period when --period is not given (None; 0 behaves alike)
NoPeriod == 0
PeriodChoices == {NoPeriod, 7}

Statuses == {200, 403}

Colls == {"open", "closed"}

UserUrls == {"U1", "U2"}

\* Raw API objects.  A timestamp is <<year, month, day, hour>>.
OpenCatalog ==
  { [created_at |-> <<2024, 1, 4, 9>>, closed_at |-> None, merged_at |-> None,
     user |-> "U1", requested_reviewers |-> <<>>, html_url |-> 0],
    [created_at |-> <<2024, 1, 3, 22>>, closed_at |-> None, merged_at |-> None,
     user |-> "U2", requested_reviewers |-> <<"U1">>, html_url |-> 0],
    [created_at |-> <<2023, 8, 1, 9>>, closed_at |-> None, merged_at |-> None,
     user |-> "U1", requested_reviewers |-> <<>>, html_url |-> 0] }

ClosedCatalog ==
  { [created_at |-> <<2024, 1, 1, 23>>, closed_at |-> <<2024, 1, 4, 1>>,
     merged_at |-> <<2024, 1, 4, 1>>,
     user |-> "U1", requested_reviewers |-> <<"U2">>, html_url |-> 0],
    [created_at |-> <<2023, 8, 1, 9>>, closed_at |-> <<2024, 1, 15, 9>>,
     merged_at |-> <<2024, 1, 15, 9>>,
     user |-> "U1", requested_reviewers |-> <<>>, html_url |-> 0],
    [created_at |-> <<2024, 1, 4, 9>>, closed_at |-> <<2024, 1, 15, 9>>,
     merged_at |-> None,
     user |-> "U2", requested_reviewers |-> <<>>, html_url |-> 0],
    [created_at |-> <<2024, 1, 4, 9>>, closed_at |-> None,
     merged_at |-> <<2024, 1, 15, 9>>,
     user |-> "U2", requested_reviewers |-> <<"U1">>, html_url |-> 0] }

Catalog(coll) == IF coll = "open" THEN OpenCatalog ELSE ClosedCatalog

\* the pages a server may answer with: up to MaxPageLen catalog objects
PageChoices(coll) ==
  UNION { [1..n -> Catalog(coll)] : n \in 0..MaxPageLen }

(* ------------------------------ dates ----------------------------------- *)
IsLeap(y) == y % 4 = 0 /\ (y % 100 # 0 \/ y % 400 = 0)

DaysBeforeYear(y) ==
  LET p == y - 1 IN p * 365 + (p \div 4) - (p \div 100) + (p \div 400)

DaysBeforeMonth(y, m) ==
  <<0, 31, 59, 90, 120, 151, 181, 212, 243, 273, 304, 334>>[m]
    + (IF m > 2 /\ IsLeap(y) THEN 1 ELSE 0)

\* date.toordinal(): date arithmetic and comparison go through it
ToOrdinal(d) == DaysBeforeYear(d[1]) + DaysBeforeMonth(d[1], d[2]) + d[3]

\* parse(ts).date(): the calendar date of a timestamp, time of day dropped
DateOf(ts) == <<ts[1], ts[2], ts[3]>>

\* parse(None) raises TypeError
ParseRaises(ts) == ts = None

(* ------------------------------ User ------------------------------------ *)
\* User.__init__ on st = [cache, requests]: a request unless the url is a
\* key of User.cache; nothing ever stores into User.cache
User(st, userurl) ==
  IF userurl \in st.cache
    THEN st
    ELSE [st EXCEPT !.requests[userurl] = @ + 1]

RECURSIVE ResolveAll(_, _)
ResolveAll(st, urls) ==
  IF urls = <<>> THEN st
  ELSE ResolveAll(User(st, Head(urls)), Tail(urls))

(* ------------------------------ ScyllaPR -------------------------------- *)
\* ScyllaPR.__init__ (the record; the User requests are in ResolveAll)
ScyllaPR(json) ==
  [created_at |-> DateOf(json.created_at),
   url        |-> json.html_url,
   closed_at  |-> IF ParseRaises(json.closed_at) THEN None
                  ELSE DateOf(json.closed_at),
   merged_at  |-> IF ParseRaises(json.merged_at) THEN None
                  ELSE DateOf(json.merged_at),
   user       |-> json.user,
   reviewers  |-> json.requested_reviewers]

\* variant: both end days counted
timeToCloseInclusive(pr) == ToOrdinal(pr.closed_at) - ToOrdinal(pr.created_at) + 1

timeToClose(pr) == ToOrdinal(pr.closed_at) - ToOrdinal(pr.created_at)

openFor(pr) == ToOrdinal(Today) - ToOrdinal(pr.created_at)

isOpen(pr) == pr.closed_at = None

\* variants: one of the two tests dropped
isAbandonedNoMergeTest(pr) == pr.closed_at # None

isAbandonedNoCloseTest(pr) == pr.merged_at = None

isAbandoned(pr) == pr.closed_at # None /\ pr.merged_at = None

isMerged(pr) == pr.merged_at # None

\* variant: non-strict comparison
needsAttentionInclusive(pr, days) ==
  isOpen(pr) /\ ToOrdinal(Today) - days >= ToOrdinal(pr.created_at)

needsAttention(pr, days) ==
  isOpen(pr) /\ ToOrdinal(Today) - days > ToOrdinal(pr.created_at)

(* --------------------------- getGithubData ------------------------------ *)
read_all(dummy) == TRUE

\* shouldIncludePR of __main__; raises TypeError when closed_at is null
shouldIncludePRRaises(days, data) ==
  days # NoPeriod /\ ParseRaises(data.closed_at)

shouldIncludePR(days, data) ==
  IF days = NoPeriod THEN TRUE
  ELSE ToOrdinal(Today) - days < ToOrdinal(DateOf(data.closed_at))

add_criteria(coll, days, x) ==
  IF coll = "open" THEN read_all(x) ELSE shouldIncludePR(days, x)

add_criteriaRaises(coll, days, x) ==
  coll = "closed" /\ shouldIncludePRRaises(days, x)

\* [ ScyllaPR(x, token) for x in json if add_criteria(x) ], left to right,
\* stopping at the first exception; acc = [recs, users, exc]
RECURSIVE Comprehension(_, _, _, _)
Comprehension(coll, days, items, acc) ==
  IF items = <<>> THEN acc
  ELSE LET x == Head(items) IN
    IF add_criteriaRaises(coll, days, x) THEN [acc EXCEPT !.exc = "TypeError"]
    ELSE IF ~add_criteria(coll, days, x)
      THEN Comprehension(coll, days, Tail(items), acc)
    ELSE IF ParseRaises(x.created_at) THEN [acc EXCEPT !.exc = "TypeError"]
    ELSE Comprehension(coll, days, Tail(items),
           [acc EXCEPT !.recs = Append(@, ScyllaPR(x)),
                       !.users = ResolveAll(@, <<x.user>> \o x.requested_reviewers)])

\* variant: ret = instead of ret +=
AccumulateOverwrite(ret, recs) == recs

\* ret += <the records of the page>
Accumulate(ret, recs) == ret \o recs

\* variant: any answer accepted
StatusOkLax(status) == status >= 200

StatusOk(status) == status = 200

(* ------------------------------ state ----------------------------------- *)
VARIABLES
  period,        \* args.period
  open_only,     \* args.open_only
  pc,            \* position of the script
  ret,           \* getGithubData's accumulator
  returned,      \* the collections whose getGithubData call has returned
  served,        \* what the API answered, per collection, in GET order
  listRequests,  \* GETs issued to each pull-request list endpoint
  userRequests,  \* GETs issued to each user profile url
  cache,         \* keys of User.cache
  openPR, closedPR, abandonedPR, mergedPR,
  action, data, bins, sorted_keys,   \* printHistogram's locals, last call
  stdout, stderr,
  exception,     \* the uncaught exception, "" if none
  exitCode       \* sys.exit argument (-1), 1 after an uncaught exception

vars == <<period, open_only, pc, ret, returned, served, listRequests, userRequests,
          cache, openPR, closedPR, abandonedPR, mergedPR,
          action, data, bins, sorted_keys, stdout, stderr, exception, exitCode>>

histVars == <<action, data, bins, sorted_keys>>
bucketVars == <<abandonedPR, mergedPR>>
netVars == <<returned, served, listRequests, userRequests, cache>>

Thresholds == {0, 1, 2, 3, 4, 5, 6, 7, 15, 21, 30, 60, 120}

Init ==
  /\ period \in PeriodChoices
  /\ open_only \in BOOLEAN
  /\ pc = "fetch_open"
  /\ ret = <<>>
  /\ returned = {}
  /\ served = [c \in Colls |-> <<>>]
  /\ listRequests = [c \in Colls |-> 0]
  /\ userRequests = [u \in UserUrls |-> 0]
  /\ cache = {}
  /\ openPR = <<>> /\ closedPR = <<>>
  /\ abandonedPR = <<>> /\ mergedPR = <<>>
  /\ action = "" /\ data = <<>>
  /\ bins = [k \in Thresholds |-> 0]
  /\ sorted_keys = <<>>
  /\ stdout = <<>> /\ stderr = <<>>
  /\ exception = ""
  /\ exitCode = 0

(* ------------------------- getGithubData steps -------------------------- *)
\* the collection getGithubData is walking
CurrentColl == IF pc = "fetch_open" THEN "open" ELSE "closed"

RECURSIVE CountItems(_)
CountItems(pages) ==
  IF pages = <<>> THEN 0 ELSE Len(Head(pages).items) + CountItems(Tail(pages))

\* objects served so far in this run
NServed == CountItems(served["open"]) + CountItems(served["closed"])

\* the server numbers the pull requests it serves (html_url)
Numbered(items, base) ==
  [i \in 1..Len(items) |-> [items[i] EXCEPT !.html_url = base + i]]

\* sys.exit(-1) after a non-200 answer (lines 84-86)
getGithubData_fail ==
  /\ pc \in {"fetch_open", "fetch_closed"}
  /\ \E status \in Statuses :
       /\ ~StatusOk(status)
       /\ served' = [served EXCEPT ![CurrentColl] =
                       Append(@, [status |-> status, items |-> <<>>, next |-> FALSE])]
  /\ listRequests' = [listRequests EXCEPT ![CurrentColl] = @ + 1]
  /\ stderr' = Append(stderr, "Can't contact github API")
  /\ exitCode' = -1
  /\ pc' = "exit"
  /\ UNCHANGED <<period, open_only, ret, returned, userRequests, cache, openPR,
                 closedPR, bucketVars, histVars, stdout, exception>>

\* one iteration of the while loop with a 200 answer (lines 83-95), up to
\* the return and the caller's assignment (lines 170-174, 181)
getGithubData_page ==
  /\ pc \in {"fetch_open", "fetch_closed"}
  /\ \E status \in Statuses, tpl \in PageChoices(CurrentColl), next \in BOOLEAN :
       /\ StatusOk(status)
       /\ NServed + Len(tpl) <= MaxObjects
       \* this GET, the one a 'next' link asks for and, while the open
       \* collection is walked, the first GET of the closed one
       /\ listRequests["open"] + listRequests["closed"] + 1
            + (IF next THEN 1 ELSE 0)
            + (IF CurrentColl = "open" /\ ~open_only THEN 1 ELSE 0) <= MaxGets
       /\ LET coll  == CurrentColl
              json  == Numbered(tpl, NServed)
              r     == Comprehension(coll, period, json,
                         [recs |-> <<>>,
                          users |-> [cache |-> cache, requests |-> userRequests],
                          exc |-> ""])
              ret2  == Accumulate(ret, r.recs)
          IN /\ served' = [served EXCEPT ![coll] =
                             Append(@, [status |-> status, items |-> json, next |-> next])]
             /\ listRequests' = [listRequests EXCEPT ![coll] = @ + 1]
             /\ userRequests' = r.users.requests
             /\ cache' = r.users.cache
             /\ IF r.exc # ""
                  THEN /\ exception' = r.exc
                       /\ exitCode' = 1
                       /\ pc' = "crashed"
                       /\ UNCHANGED <<ret, returned, openPR, closedPR>>
                ELSE IF next
                  THEN /\ ret' = ret2
                       /\ UNCHANGED <<pc, returned, openPR, closedPR, exception,
                                      exitCode>>
                ELSE /\ ret' = <<>>
                     /\ returned' = returned \cup {coll}
                     /\ openPR' = IF coll = "open" THEN ret2 ELSE openPR
                     /\ closedPR' = IF coll = "closed" THEN ret2 ELSE closedPR
                     /\ pc' = IF coll = "closed" THEN "classify"
                              ELSE IF open_only THEN "stats_period"
                              ELSE "fetch_closed"
                     /\ UNCHANGED <<exception, exitCode>>
  /\ UNCHANGED <<period, open_only, bucketVars, histVars, stdout, stderr>>

(* ------------------------------ classifier ------------------------------ *)
\* the for loop of lines 183-190; acc = [abandoned, merged, exc]
RECURSIVE ClassifyLoop(_, _)
ClassifyLoop(prs, acc) ==
  IF prs = <<>> THEN acc
  ELSE LET x == Head(prs) IN
    IF isOpen(x) THEN [acc EXCEPT !.exc = "Exception"]
    ELSE IF isAbandoned(x)
      THEN ClassifyLoop(Tail(prs), [acc EXCEPT !.abandoned = Append(@, x)])
    ELSE IF isMerged(x)
      THEN ClassifyLoop(Tail(prs), [acc EXCEPT !.merged = Append(@, x)])
    ELSE ClassifyLoop(Tail(prs), acc)

classify ==
  /\ pc = "classify"
  /\ LET r == ClassifyLoop(closedPR,
                [abandoned |-> abandonedPR, merged |-> mergedPR, exc |-> ""])
     IN /\ abandonedPR' = r.abandoned
        /\ mergedPR' = r.merged
        /\ IF r.exc # ""
             THEN /\ exception' = r.exc
                  /\ exitCode' = 1
                  /\ pc' = "crashed"
             ELSE /\ pc' = "stats_period"
                  /\ UNCHANGED <<exception, exitCode>>
  /\ UNCHANGED <<period, open_only, ret, netVars, openPR, closedPR, histVars,
                 stdout, stderr>>

(* ------------------------------ reporter -------------------------------- *)
\* one printed line; a and b are the numbers formatted into it
Line(kind, act, a, b) == [kind |-> kind, action |-> act, a |-> a, b |-> b]

RECURSIVE Sum(_)
Sum(s) == IF s = <<>> THEN 0 ELSE Head(s) + Sum(Tail(s))

RECURSIVE Max(_)
Max(s) == IF Len(s) = 1 THEN s[1]
          ELSE LET m == Max(Tail(s)) IN IF s[1] >= m THEN s[1] ELSE m

\* int(a / b): truncation towards zero
IntDiv(a, b) == IF a >= 0 THEN a \div b ELSE -((-a) \div b)

\* sorted(bins.keys())
RECURSIVE Sorted(_)
Sorted(S) ==
  IF S = {} THEN <<>>
  ELSE LET m == CHOOSE x \in S : \A y \in S : x <= y
       IN <<m>> \o Sorted(S \ {m})

\* variant: x < k
RECURSIVE CountOneStrict(_, _, _)
CountOneStrict(b, keys, x) ==
  IF keys = <<>> THEN b
  ELSE IF x < Head(keys) THEN [b EXCEPT ![Head(keys)] = @ + 1]
  ELSE CountOneStrict(b, Tail(keys), x)

\* for k in sorted_keys: if x <= k: bins[k] += 1; break
RECURSIVE CountOne(_, _, _)
CountOne(b, keys, x) ==
  IF keys = <<>> THEN b
  ELSE IF x <= Head(keys) THEN [b EXCEPT ![Head(keys)] = @ + 1]
  ELSE CountOne(b, Tail(keys), x)

\* for x in data: ...
RECURSIVE CountAll(_, _, _)
CountAll(b, keys, xs) ==
  IF xs = <<>> THEN b
  ELSE CountAll(CountOne(b, keys, Head(xs)), keys, Tail(xs))

\* while bins[sorted_keys[-1]] == 0: sorted_keys.pop()
\* sorted_keys[-1] of an empty list raises IndexError
RECURSIVE Trim(_, _)
Trim(keys, b) ==
  IF keys = <<>> THEN [keys |-> keys, exc |-> "IndexError"]
  ELSE IF b[keys[Len(keys)]] = 0 THEN Trim(SubSeq(keys, 1, Len(keys) - 1), b)
  ELSE [keys |-> keys, exc |-> ""]

\* printHistogram(closedPR, action): its locals, the lines it prints and the
\* exception that ends it, if any
printHistogram(prs, act) ==
  LET b0   == [k \in Thresholds |-> 0]
      keys == Sorted(DOMAIN b0)
      d    == [i \in 1..Len(prs) |-> timeToClose(prs[i])]
      b    == CountAll(b0, keys, d)
      t    == Trim(keys, b)
  IN IF Len(d) = 0
       THEN [data |-> d, bins |-> b, sorted_keys |-> keys, lines |-> <<>>,
             exc |-> "ZeroDivisionError"]
     ELSE [data |-> d, bins |-> b, sorted_keys |-> t.keys,
           lines |-> << Line("average", act, IntDiv(Sum(d), Len(d)), 0),
                        Line("peak", act, Max(d), 0),
                        Line("histogram", act, 0, 0) >>
                     \o (IF t.exc # "" THEN <<>>
                         ELSE [i \in 1..Len(t.keys) |->
                                 Line("bin", act, t.keys[i], b[t.keys[i]])]),
           exc |-> t.exc]

\* lines 134-137: "for the past {days} days".format(days) raises KeyError
printStats_period ==
  /\ pc = "stats_period"
  /\ IF period # NoPeriod
       THEN /\ exception' = "KeyError"
            /\ exitCode' = 1
            /\ pc' = "crashed"
       ELSE /\ pc' = "stats_merged"
            /\ UNCHANGED <<exception, exitCode>>
  /\ UNCHANGED <<period, open_only, ret, netVars, openPR, closedPR, bucketVars,
                 histVars, stdout, stderr>>

\* a bucket's section: the count line, then printHistogram
Section(prs, act, nextpc) ==
  IF prs = <<>>
    THEN /\ pc' = nextpc
         /\ UNCHANGED <<histVars, stdout, exception, exitCode>>
  ELSE LET h == printHistogram(prs, act)
       IN /\ stdout' = stdout \o <<Line("count", act, Len(prs), period)>> \o h.lines
          /\ action' = act
          /\ data' = h.data
          /\ bins' = h.bins
          /\ sorted_keys' = h.sorted_keys
          /\ IF h.exc # ""
               THEN /\ exception' = h.exc
                    /\ exitCode' = 1
                    /\ pc' = "crashed"
               ELSE /\ pc' = nextpc
                    /\ UNCHANGED <<exception, exitCode>>

\* lines 139-141
printStats_merged ==
  /\ pc = "stats_merged"
  /\ Section(mergedPR, "merge", "stats_abandoned")
  /\ UNCHANGED <<period, open_only, ret, netVars, openPR, closedPR, bucketVars,
                 stderr>>

\* lines 143-145
printStats_abandoned ==
  /\ pc = "stats_abandoned"
  /\ Section(abandonedPR, "abandon", "stats_open")
  /\ UNCHANGED <<period, open_only, ret, netVars, openPR, closedPR, bucketVars,
                 stderr>>

\* openPR.sort(key=lambda x: x.openFor(), reverse=True): stable, equal keys
\* keep their order
RECURSIVE InsertDesc(_, _)
InsertDesc(s, x) ==
  IF s = <<>> THEN <<x>>
  ELSE IF openFor(Head(s)) >= openFor(x) THEN <<Head(s)>> \o InsertDesc(Tail(s), x)
  ELSE <<x>> \o s

RECURSIVE SortByOpenFor(_)
SortByOpenFor(s) ==
  IF s = <<>> THEN <<>>
  ELSE InsertDesc(SortByOpenFor(SubSeq(s, 1, Len(s) - 1)), s[Len(s)])

SelectAttention(prs, attDay) == SelectSeq(prs, LAMBDA x : needsAttention(x, attDay))

\* lines 147-156, then the script ends
printStats_open ==
  /\ pc = "stats_open"
  /\ LET attDay == 15
         srt    == SortByOpenFor(openPR)
         att    == SelectAttention(srt, attDay)
     IN /\ openPR' = srt
        /\ stdout' = stdout \o <<Line("open_count", "", Len(openPR), 0)>>
                     \o (IF Len(att) > 0
                           THEN <<Line("attention_header", "", attDay, 0)>>
                                \o [i \in 1..Len(att) |->
                                      Line("pr", "", att[i].url, openFor(att[i]))]
                           ELSE <<>>)
  /\ pc' = "done"
  /\ UNCHANGED <<period, open_only, ret, netVars, closedPR, bucketVars, histVars,
                 stderr, exception, exitCode>>

Next ==
  \/ getGithubData_fail
  \/ getGithubData_page
  \/ classify
  \/ printStats_period
  \/ printStats_merged
  \/ printStats_abandoned
  \/ printStats_open

Spec == Init /\ [][Next]_vars

(* ============================== properties ============================== *)
RECURSIVE Flatten(_)
Flatten(pages) ==
  IF pages = <<>> THEN <<>> ELSE Head(pages).items \o Flatten(Tail(pages))

Range(f) == {f[i] : i \in DOMAIN f}

Terminated == pc \in {"exit", "crashed", "done"}

AllAnswersOk ==
  \A c \in Colls : \A i \in 1..Len(served[c]) : served[c][i].status = 200

SomeAnswerNotOk == ~AllAnswersOk

\* the inclusion predicate as the caller passes it: everything from the open
\* collection; from the closed one, everything without --period, else what
\* was closed less than period days ago
Satisfies(c, x) ==
  \/ c = "open"
  \/ period = NoPeriod
  \/ /\ x.closed_at # None
     /\ ToOrdinal(Today) - period < ToOrdinal(<<x.closed_at[1], x.closed_at[2], x.closed_at[3]>>)

SatisfyingObjects(c) == SelectSeq(Flatten(served[c]), LAMBDA x : Satisfies(c, x))

ExpectedRecords(c) ==
  LET objs == SatisfyingObjects(c)
  IN [i \in 1..Len(objs) |->
        [created_at |-> <<objs[i].created_at[1], objs[i].created_at[2], objs[i].created_at[3]>>,
         url        |-> objs[i].html_url,
         closed_at  |-> IF objs[i].closed_at = None THEN None
                        ELSE <<objs[i].closed_at[1], objs[i].closed_at[2], objs[i].closed_at[3]>>,
         merged_at  |-> IF objs[i].merged_at = None THEN None
                        ELSE <<objs[i].merged_at[1], objs[i].merged_at[2], objs[i].merged_at[3]>>,
         user       |-> objs[i].user,
         reviewers  |-> objs[i].requested_reviewers]]

UrlsOf(x) == {x.user} \cup Range(x.requested_reviewers)

\* every record the constructor has built and the script still holds
Constructed == Range(ret) \cup Range(openPR) \cup Range(closedPR)

(* ------------------------------- C1 ------------------------------------- *)
\* C1: within one run every profile url is requested over the network at
\* most once; later resolutions of the same url are served from the cache.
C1_AtMostOneRequestPerUrl ==
  \A u \in UserUrls : userRequests[u] <= 1

(* ------------------------------- C2 ------------------------------------- *)
\* C2: once a GET to a pull-request list endpoint is answered with a status
\* other than 200, the process has exited with code -1 after one error line
\* on stderr; that GET is the last request (nothing follows it in either
\* collection), the failing call has not returned its records to the caller
\* and nothing has been printed.
C2_Non200IsFatal ==
  \A c \in Colls : \A i \in 1..Len(served[c]) :
    served[c][i].status # 200 =>
      /\ pc = "exit"
      /\ exitCode = -1
      /\ stderr = <<"Can't contact github API">>
      /\ stdout = <<>>
      /\ i = Len(served[c])
      /\ listRequests[c] = i
      /\ c \notin returned
      /\ (c = "open" => served["closed"] = <<>> /\ openPR = <<>>)
      /\ closedPR = <<>> /\ abandonedPR = <<>> /\ mergedPR = <<>>

\* the closed collection fails on a later page, after records were accumulated
C2_Witness ==
  /\ pc = "exit"
  /\ Len(served["closed"]) >= 2
  /\ ret # <<>>
  /\ openPR # <<>>

(* ------------------------------- C3 ------------------------------------- *)
\* C3: when every list answer is 200 and every object of the closed
\* collection has a closing date, the run does not end in an uncaught
\* exception, whatever --period and --open-only are: it ends with the report
\* printed and exit code 0.
C3_ReportThenExit0 ==
  (/\ Terminated
   /\ AllAnswersOk
   /\ \A i \in 1..Len(served["closed"]) :
        \A x \in Range(served["closed"][i].items) : x.closed_at # None)
  => (/\ pc = "done"
      /\ exitCode = 0
      /\ \E i \in 1..Len(stdout) : stdout[i].kind = "open_count")

(* ------------------------------- C4 ------------------------------------- *)
\* C4: getGithubData issues one GET per page, goes on only from a page that
\* carries a 'next' link, and, when it returns, the page without 'next' was
\* the last one fetched and the result is exactly the records of the objects
\* that satisfy the predicate, in page order; profile requests are only made
\* for objects that satisfy the predicate.
C4_Pagination ==
  /\ \A c \in Colls :
       /\ listRequests[c] = Len(served[c])
       /\ \A i \in 1..(Len(served[c]) - 1) : served[c][i].next
       /\ c \in returned =>
            /\ served[c] # <<>>
            /\ ~served[c][Len(served[c])].next
            /\ c = "closed" => closedPR = ExpectedRecords(c)
            /\ (c = "open" /\ pc # "done") => openPR = ExpectedRecords(c)
       /\ (c \notin returned /\ CurrentColl = c /\ ~Terminated) =>
            ret = ExpectedRecords(c)
  /\ \A u \in UserUrls :
       userRequests[u] > 0 =>
         \E c \in Colls : \E x \in Range(SatisfyingObjects(c)) : u \in UrlsOf(x)

\* a chain of three pages, the predicate rejecting all of page 2: the
\* records of pages 1 and 3 are returned in that order
C4_Witness ==
  /\ "closed" \in returned
  /\ Len(served["closed"]) = 3
  /\ \A i \in 1..3 : Len(served["closed"][i].items) = 1
  /\ \A x \in Range(served["closed"][2].items) : ~Satisfies("closed", x)
  /\ Len(closedPR) = 2
  /\ closedPR[1].url = served["closed"][1].items[1].html_url
  /\ closedPR[2].url = served["closed"][3].items[1].html_url

(* ------------------------------- C5 ------------------------------------- *)
ReachedReport ==
  \/ pc \in {"stats_period", "stats_merged", "stats_abandoned", "stats_open", "done"}
  \/ pc = "crashed" /\ exception \in {"KeyError", "IndexError", "ZeroDivisionError"}

\* C5: without --open-only the report is reached only if no closed record
\* is open, and then the abandoned and merged buckets split the closed
\* records in fetch order; an open record among them aborts the run before
\* anything is printed; with --open-only the closed collection is never
\* requested and both buckets stay empty.
C5_Classifier ==
  /\ open_only =>
       /\ listRequests["closed"] = 0
       /\ abandonedPR = <<>> /\ mergedPR = <<>>
  /\ (~open_only /\ ReachedReport) =>
       /\ \A i \in 1..Len(closedPR) : closedPR[i].closed_at # None
       /\ abandonedPR = SelectSeq(closedPR, LAMBDA x : x.merged_at = None)
       /\ mergedPR = SelectSeq(closedPR, LAMBDA x : x.merged_at # None)
       /\ Len(abandonedPR) + Len(mergedPR) = Len(closedPR)
       /\ {x.url : x \in Range(abandonedPR)} \cap {x.url : x \in Range(mergedPR)} = {}
  /\ (\E i \in 1..Len(closedPR) : closedPR[i].closed_at = None) =>
       /\ pc \in {"classify", "crashed"}
       /\ pc = "crashed" => exception = "Exception"
       /\ stdout = <<>>

C5_Witness ==
  /\ pc = "done"
  /\ ~open_only
  /\ Len(mergedPR) >= 2
  /\ Len(abandonedPR) >= 1
  /\ closedPR[1].merged_at # None /\ closedPR[2].merged_at = None

(* ------------------------------- C6 ------------------------------------- *)
\* the end-to-end scenario: no --period, the closed collection holds one
\* pull request, merged, created 2024-01-01 and closed 2024-01-04
C6_Scenario ==
  /\ pc = "done"
  /\ ~open_only
  /\ period = NoPeriod
  /\ Len(Flatten(served["closed"])) = 1
  /\ LET x == Flatten(served["closed"])[1]
     IN /\ SubSeq(x.created_at, 1, 3) = <<2024, 1, 1>>
        /\ x.closed_at # None /\ SubSeq(x.closed_at, 1, 3) = <<2024, 1, 4>>
        /\ x.merged_at # None

MergeBinLines == SelectSeq(stdout, LAMBDA l : l.kind = "bin" /\ l.action = "merge")

MergeCountIsOne ==
  \E i \in 1..Len(stdout) :
    stdout[i].kind = "count" /\ stdout[i].action = "merge" /\ stdout[i].a = 1

\* C6 as stated: in the scenario the report shows a merged count of 1 and the
\* merge histogram has its single mark in bin 4, bins 0..3 being empty.
C6_Original ==
  C6_Scenario =>
    /\ MergeCountIsOne
    /\ \E i \in 1..Len(MergeBinLines) :
         MergeBinLines[i].a = 4 /\ MergeBinLines[i].b = 1
    /\ \A i \in 1..Len(MergeBinLines) :
         MergeBinLines[i].a # 4 => MergeBinLines[i].b = 0

\* C6 amended: in the scenario the report shows a merged count of 1 and the
\* merge histogram has its single mark in bin 3 (2024-01-04 is 3 days after
\* 2024-01-01), bins 0..2 being empty and no larger bin printed.
C6_SingleMarkInBin3 ==
  C6_Scenario =>
    /\ MergeCountIsOne
    /\ [i \in 1..Len(MergeBinLines) |-> MergeBinLines[i].a] = <<0, 1, 2, 3>>
    /\ [i \in 1..Len(MergeBinLines) |-> MergeBinLines[i].b] = <<0, 0, 0, 1>>

C6_Witness == C6_Scenario /\ Len(MergeBinLines) > 0

(* ------------------------------- C7 ------------------------------------- *)
\* C7 as stated: for every record the constructor has built, isMerged()
\* implies not isAbandoned(), and isMerged() and isAbandoned() each imply
\* not isOpen().
C7_Original ==
  \A p \in Constructed :
    /\ isMerged(p) => ~isAbandoned(p)
    /\ isMerged(p) => ~isOpen(p)
    /\ isAbandoned(p) => ~isOpen(p)

\* the API object a record was built from
ObjectOf(p) ==
  CHOOSE x \in Range(Flatten(served["open"]) \o Flatten(served["closed"])) :
    x.html_url = p.url

\* C7 amended: for every record the constructor has built, isMerged() implies
\* not isAbandoned() and isAbandoned() implies not isOpen(); isMerged()
\* implies not isOpen() for the records whose API object has a closed_at
\* whenever it has a merged_at (the constructor copies a merge date without a
\* closing date as it is).
C7_PredicatesConsistent ==
  \A p \in Constructed :
    /\ isMerged(p) => ~isAbandoned(p)
    /\ isAbandoned(p) => ~isOpen(p)
    /\ (ObjectOf(p).merged_at # None => ObjectOf(p).closed_at # None)
         => (isMerged(p) => ~isOpen(p))

\* records with a merge date and no closing date, closed without a merge
\* date, and with both have been built
C7_Witness ==
  /\ \E p \in Constructed : p.closed_at = None /\ p.merged_at # None
  /\ \E p \in Constructed : p.closed_at # None /\ p.merged_at = None
  /\ \E p \in Constructed : p.closed_at # None /\ p.merged_at # None

(* ------------------------------- C8 ------------------------------------- *)
RECURSIVE SumBins(_, _)
SumBins(b, S) ==
  IF S = {} THEN 0
  ELSE LET k == CHOOSE x \in S : TRUE IN b[k] + SumBins(b, S \ {k})

HistogramInput == IF action = "merge" THEN mergedPR ELSE abandonedPR

\* C8: after printHistogram has counted a non-empty sequence of records, bin
\* k holds the number of records whose close time x is <= k and above every
\* smaller threshold (so x = k is counted in bin k), records with x > 120 are
\* in no bin, and the bins add up to the number of records with x <= 120.
C8_BinAssignment ==
  action # "" =>
    /\ Len(data) = Len(HistogramInput) /\ Len(data) > 0
    /\ \A i \in 1..Len(data) :
         data[i] = ToOrdinal(HistogramInput[i].closed_at)
                     - ToOrdinal(HistogramInput[i].created_at)
    /\ \A k \in Thresholds :
         bins[k] = Cardinality({i \in 1..Len(data) :
                      data[i] <= k /\ \A j \in Thresholds : j < k => data[i] > j})
    /\ SumBins(bins, Thresholds) = Cardinality({i \in 1..Len(data) : data[i] <= 120})

\* a close time equal to a threshold (3) next to one above 120
C8_Witness ==
  /\ action = "merge"
  /\ \E i \in 1..Len(data) : data[i] = 3
  /\ \E i \in 1..Len(data) : data[i] > 120
  /\ bins[3] >= 1
  /\ SumBins(bins, Thresholds) < Len(data)

(* ------------------------------- C9 ------------------------------------- *)
\* C9: for every non-empty sequence of closed records printHistogram
\* completes normally and prints the bins from 0 up to the largest threshold
\* with a non-zero count, also when every close time exceeds 120 days (then
\* no bin line is printed).
C9_TrimmingCompletes ==
  action # "" =>
    /\ exception # "IndexError"
    /\ sorted_keys = Sorted({k \in Thresholds : \E k2 \in Thresholds : k2 >= k /\ bins[k2] > 0})
    /\ LET lines == SelectSeq(stdout, LAMBDA l : l.kind = "bin" /\ l.action = action)
       IN [i \in 1..Len(lines) |-> lines[i].a] = sorted_keys

(* ------------------------------- C10 ------------------------------------ *)
AttentionLines == SelectSeq(stdout, LAMBDA l : l.kind = "pr")

ShouldBeListed ==
  {p \in Range(openPR) :
     p.closed_at = None /\ ToOrdinal(Today) - 15 > ToOrdinal(p.created_at)}

\* C10: when printStats has printed its open section, the open count is the
\* number of open records, and the attention list holds exactly the open
\* records created more than 15 days before today (exactly 15 days is not
\* listed), each once, by descending openFor(); the list header is printed
\* iff the list is non-empty.
C10_OpenSection ==
  pc = "done" =>
    /\ Cardinality({i \in 1..Len(stdout) : stdout[i].kind = "open_count"}) = 1
    /\ \A i \in 1..Len(stdout) :
         stdout[i].kind = "open_count" => stdout[i].a = Len(openPR)
    /\ {AttentionLines[i].a : i \in 1..Len(AttentionLines)}
         = {p.url : p \in ShouldBeListed}
    /\ Len(AttentionLines) = Cardinality(ShouldBeListed)
    /\ \A i \in 1..Len(AttentionLines) : \A p \in ShouldBeListed :
         p.url = AttentionLines[i].a =>
           AttentionLines[i].b = ToOrdinal(Today) - ToOrdinal(p.created_at)
    /\ \A i, j \in 1..Len(AttentionLines) :
         i < j => AttentionLines[i].b >= AttentionLines[j].b
    /\ (\E i \in 1..Len(stdout) : stdout[i].kind = "attention_header")
         <=> Len(AttentionLines) > 0

\* a record created exactly 15 days ago is left out, and two listed records
\* were fetched in the opposite order
C10_Witness ==
  /\ pc = "done"
  /\ \E p \in Range(openPR) : ToOrdinal(Today) - 15 = ToOrdinal(p.created_at)
  /\ Len(AttentionLines) = 2
  /\ Len(openPR) = 3
  /\ AttentionLines[1].a > AttentionLines[2].a
  /\ AttentionLines[1].b > AttentionLines[2].b

====
